---- MODULE Spec2Model ----
(***************************************************************************)
(* Model of notebooks-text-format/bayes_intro.py: the notebook's cells as  *)
(* steps over the notebook-level names.  Real numbers are exact rationals  *)
(* <<n, d>> (d > 0, lowest terms); <<0, 0>> stands for NaN.  The sizes the  *)
(* notebook fixes (100 trials, 10000 samples, a grid of 200 points) are    *)
(* the bounds below.                                                       *)
(***************************************************************************)
EXTENDS Integers, Sequences, FiniteSets, TLC

VARIABLES pc, err, lit, rng, run, prev, it,
          n_trials, data, beta_params, idx, N, y, p_theta_given_y,
          theta_real, ntrials, N1, N0, aprior, bprior, apost, bpost,
          alpha, CI1, CI2, samples, CI3, grid, lossf_a, lossf_b, mini, est,
          x, mu_prior, sigma_prior, Sigma_prior, sigma_x, Sigma_x, Sigma_post, xbar,
          mu_post, model, mu_clamped, logp, log_prior, log_lik, log_joint,
          trace, post, data_clean, ngroups, comparisons, pos, ax

betaVars == <<n_trials, data, beta_params, idx, N, y, p_theta_given_y,
              theta_real, ntrials, N1, N0, aprior, bprior, apost, bpost,
              alpha, CI1, CI2, samples, CI3, grid, lossf_a, lossf_b, mini, est>>

gaussVars == <<x, mu_prior, sigma_prior, Sigma_prior, sigma_x, Sigma_x, Sigma_post, xbar,
               mu_post, model, mu_clamped, logp, log_prior, log_lik, log_joint>>

\* names bound by the cells after the Beta point estimates and the Gaussian log joint
laterVars == <<trace, post, data_clean, ngroups, comparisons, pos, ax>>

vars == <<pc, err, lit, rng, run, prev, it, betaVars, gaussVars, laterVars>>

(* ---------------------------- bounds ----------------------------------- *)
\* ntrials is 100 in the notebook
MaxTrials == 3
\* size=10000 in the notebook
NumSamples == 4
\* np.linspace(0, 1, 200) in the notebook
GridPoints == 5
\* resolution of the tabulated inverse CDF
PpfGrid == 6
\* number of states of the random generator
RngMod == 16
\* executions of the notebook in one kernel
MaxRuns == 2
\* N = 100 and np.random.randn(100) in the notebook
MaxObs == 3
\* rows of the column passed to removeOutliers (48 in chemical_shifts.csv)
MaxShifts == 4
\* rows of tips.csv (244 in the file)
MaxTips == 4

(* --------------------------- rationals --------------------------------- *)
Abs(n) == IF n < 0 THEN -n ELSE n

RECURSIVE GCD(_, _)
GCD(a, b) == IF b = 0 THEN a ELSE GCD(b, a % b)

Rat(n, d) ==
    LET s == IF d < 0 THEN -1 ELSE 1
        g == GCD(Abs(n), Abs(d))
    IN  <<(s * n) \div g, (s * d) \div g>>

FromInt(n) == <<n, 1>>
NaN == <<0, 0>>
IsNaN(p) == p[2] = 0

RNeg(p) == <<-p[1], p[2]>>
RAdd(p, q) ==
    LET g == GCD(p[2], q[2])
    IN  Rat(p[1] * (q[2] \div g) + q[1] * (p[2] \div g), p[2] * (q[2] \div g))
RSub(p, q) == RAdd(p, RNeg(q))
RMul(p, q) ==
    LET g1 == GCD(Abs(p[1]), q[2])
        g2 == GCD(Abs(q[1]), p[2])
    IN  IF p[1] = 0 \/ q[1] = 0 THEN <<0, 1>>
        ELSE <<(p[1] \div g1) * (q[1] \div g2), (p[2] \div g2) * (q[2] \div g1)>>
RInv(p) == IF p[1] < 0 THEN <<-p[2], -p[1]>> ELSE <<p[2], p[1]>>
RDiv(p, q) == RMul(p, RInv(q))
RAbs(p) == <<Abs(p[1]), p[2]>>
RLe(p, q) == p[1] * q[2] <= q[1] * p[2]
RLt(p, q) == p[1] * q[2] < q[1] * p[2]
Floor(p) == p[1] \div p[2]

RECURSIVE SumFrom(_, _)
SumFrom(s, i) == IF i > Len(s) THEN 0 ELSE s[i] + SumFrom(s, i + 1)
\* Python sum(data)
Sum(s) == SumFrom(s, 1)

RECURSIVE RSumFrom(_, _)
RSumFrom(s, i) == IF i > Len(s) THEN FromInt(0) ELSE RAdd(s[i], RSumFrom(s, i + 1))
\* np.mean
Mean(s) == RDiv(RSumFrom(s, 1), FromInt(Len(s)))

RECURSIVE Pow(_, _)
Pow(b, e) == IF e = 0 THEN 1 ELSE b * Pow(b, e - 1)

RECURSIVE Binom(_, _)
Binom(n, r) == IF r = 0 \/ r = n THEN 1 ELSE Binom(n - 1, r - 1) + Binom(n - 1, r)

(* ------------------------ random generator ----------------------------- *)
\* seeding leaves the generator where it was
SeedStateIgnored(s) == rng
\* np.random.seed(s): the global generator's state becomes a function of s alone
SeedState(s) == s % RngMod
\* one draw advances the state
RngStep(s) == (5 * s + 3) % RngMod

RECURSIVE RngAfter(_, _)
RngAfter(s, n) == IF n = 0 THEN s ELSE RngAfter(RngStep(s), n - 1)
\* the uniform variate in [0, 1) a state yields
Uniform(s) == Rat(s, RngMod)
\* n successive uniform variates drawn from state s
Uniforms(s, n) == [i \in 1..n |-> Uniform(RngAfter(s, i))]

(* ------------------------ library functions ---------------------------- *)
RECURSIVE BetaCdfSum(_, _, _, _)
BetaCdfSum(i, n, j, a) ==
    IF j < a THEN 0
    ELSE Binom(n, j) * Pow(i, j) * Pow(PpfGrid - i, n - j) + BetaCdfSum(i, n, j - 1, a)
\* numerator over PpfGrid^(a+b-1) of the Beta(a, b) CDF at i/PpfGrid (integer a, b >= 1)
BetaCdfNum(i, a, b) == BetaCdfSum(i, a + b - 1, a + b - 1, a)

\* beta.ppf(q, a, b): the least tabulated point whose CDF reaches q; NaN outside the domain
BetaPpf(q, a, b) ==
    IF a <= 0 \/ b <= 0 \/ IsNaN(q) \/ RLt(q, FromInt(0)) \/ RLt(FromInt(1), q) THEN NaN
    ELSE LET den == Pow(PpfGrid, a + b - 1)
             Reaches(i) == BetaCdfNum(i, a, b) * q[2] >= q[1] * den
         IN  Rat(CHOOSE i \in 0..PpfGrid :
                    Reaches(i) /\ \A m \in 0..(i - 1) : ~Reaches(m), PpfGrid)

\* the two probabilities beta.interval(confidence, ...) evaluates the ppf at
IntervalTails(conf) ==
    <<RDiv(RSub(FromInt(1), conf), FromInt(2)), RDiv(RAdd(FromInt(1), conf), FromInt(2))>>
\* beta.interval(confidence, a, b)
BetaInterval(conf, a, b) ==
    <<BetaPpf(IntervalTails(conf)[1], a, b), BetaPpf(IntervalTails(conf)[2], a, b)>>

\* one draw too many
BernoulliRvsExtra(p, n, s) == [i \in 1..(n + 1) |-> IF RLt(Uniforms(s, n + 1)[i], p) THEN 1 ELSE 0]
\* stats.bernoulli.rvs(p, size=n) drawn from generator state s
BernoulliRvs(p, n, s) == [i \in 1..n |-> IF RLt(Uniforms(s, n)[i], p) THEN 1 ELSE 0]
\* beta.rvs(a, b, size=n) drawn from generator state s
BetaRvs(a, b, n, s) == [i \in 1..n |-> BetaPpf(Uniforms(s, n)[i], a, b)]

RECURSIVE Insert(_, _)
Insert(s, v) ==
    IF s = <<>> THEN <<v>>
    ELSE IF RLe(v, Head(s)) THEN <<v>> \o s
    ELSE <<Head(s)>> \o Insert(Tail(s), v)
RECURSIVE SortFrom(_, _)
SortFrom(s, i) == IF i > Len(s) THEN <<>> ELSE Insert(SortFrom(s, i + 1), s[i])
\* np.sort
NpSort(s) == SortFrom(s, 1)

\* np.percentile(a, q), q in percent: linear interpolation between order statistics
Percentile(a, q) ==
    LET s == NpSort(a)
        n == Len(s)
        h == RMul(RDiv(q, FromInt(100)), FromInt(n - 1))
        lo == Floor(h)
        frac == RSub(h, FromInt(lo))
    IN  IF lo + 1 >= n THEN s[n]
        ELSE RAdd(s[lo + 1], RMul(frac, RSub(s[lo + 2], s[lo + 1])))

\* np.linspace(lo, hi, n)
Linspace(lo, hi, n) ==
    [i \in 1..n |-> RAdd(lo, RMul(FromInt(i - 1), RDiv(RSub(hi, lo), FromInt(n - 1))))]

RECURSIVE ArgMinLastFrom(_, _, _)
ArgMinLastFrom(l, i, best) ==
    IF i > Len(l) THEN best
    ELSE ArgMinLastFrom(l, i + 1, IF RLe(l[i], l[best]) THEN i ELSE best)
\* the last occurrence of the minimum
ArgMinLast(l) == ArgMinLastFrom(l, 2, 1) - 1

RECURSIVE ArgMinFrom(_, _, _)
ArgMinFrom(l, i, best) ==
    IF i > Len(l) THEN best
    ELSE ArgMinFrom(l, i + 1, IF RLt(l[i], l[best]) THEN i ELSE best)
\* np.argmin(l): 0-based index of the first occurrence of the minimum
ArgMin(l) == ArgMinFrom(l, 2, 1) - 1

(* -------------------- Beta-Binomial: pure parts ------------------------ *)
\* the count of heads clamped to the number of trials
PlotPosteriorClamped(a_prior, b_prior, n, heads) ==
    IF heads > n THEN <<a_prior + n, b_prior>> ELSE <<a_prior + heads, b_prior + n - heads>>
\* arguments of dist.pdf in the posterior plot
PlotPosterior(a_prior, b_prior, n, heads) == <<a_prior + heads, b_prior + n - heads>>
\* N0 = N-N1
Failures(n, n1) == n - n1
\* the counts added to the wrong parameters
PosteriorSwapped(a, b, n1, n0) == <<a + n0, b + n1>>
\* apost = aprior + N1; bpost = bprior + N0
Posterior(a, b, n1, n0) == <<a + n1, b + n0>>

\* the whole of alpha in each tail
PpfTailsWhole(al) == <<al, RSub(FromInt(1), al)>>
\* probabilities of l and u
PpfTails(al) == <<RDiv(al, FromInt(2)), RSub(FromInt(1), RDiv(al, FromInt(2)))>>
\* CI2 = (l, u)
PpfInterval(al, a, b) == <<BetaPpf(PpfTails(al)[1], a, b), BetaPpf(PpfTails(al)[2], a, b)>>
\* the two percentiles in the wrong order
PercentileArgsSwapped(al) ==
    <<RMul(FromInt(100), RSub(FromInt(1), RDiv(al, FromInt(2)))),
      RMul(FromInt(100), RDiv(al, FromInt(2)))>>
\* 100*np.array([alpha/2, 1-alpha/2])
PercentileArgs(al) ==
    <<RMul(FromInt(100), RDiv(al, FromInt(2))),
      RMul(FromInt(100), RSub(FromInt(1), RDiv(al, FromInt(2))))>>
\* CI3
PercentileInterval(al, s) ==
    <<Percentile(s, PercentileArgs(al)[1]), Percentile(s, PercentileArgs(al)[2])>>

\* lossf_a = [np.mean(abs(i - theta_pos)) for i in grid]
LossL1(g, th) == [i \in 1..Len(g) |-> Mean([j \in 1..Len(th) |-> RAbs(RSub(g[i], th[j]))])]
\* the deviation not squared
LossL2Signed(g, th) ==
    [i \in 1..Len(g) |-> Mean([j \in 1..Len(th) |-> RSub(g[i], th[j])])]
\* lossf_b = [np.mean((i - theta_pos)**2) for i in grid]
LossL2(g, th) ==
    [i \in 1..Len(g) |-> Mean([j \in 1..Len(th) |-> RMul(RSub(g[i], th[j]), RSub(g[i], th[j]))])]

(* ------------------------ the notebook's literals ---------------------- *)
\* n_trials = [0, 1, 2, 3, 4, 8, 16, 32, 50, 150]
SourceNTrials == <<0, 1, 2, 3, 4, 8, 16, 32, 50, 150>>
\* data = [0, 1, 1, 1, 1, 4, 6, 9, 13, 48]
SourceData == <<0, 1, 1, 1, 1, 4, 6, 9, 13, 48>>
\* beta_params = [(1, 1), (20, 20), (1, 4)]
SourceBetaParams == <<<<1, 1>>, <<20, 20>>, <<1, 4>>>>
\* theta_real = 0.35
SourceThetaReal == <<7, 20>>

\* values of the literals seed (42), (aprior, bprior) ((1, 1)) and alpha (0.05)
Seeds == {42, 0, 123}
Priors == {<<1, 1>>, <<2, 1>>, <<1, 3>>}
Alphas == {<<1, 20>>, <<1, 5>>, <<1, 2>>}

\* the literals of one notebook: the source's lists, and the cell's scalars
BetaLiterals ==
    [seed : Seeds, ntrials : 0..MaxTrials, prior : Priors, alpha : Alphas,
     n_trials : {SourceNTrials}, data : {SourceData}, beta_params : {SourceBetaParams}]

\* values of the literals of the Gaussian cells: seed (0), N = len(x) (100),
\* mu_prior (1.1), sigma_prior (1.2), sigma_x (1.3), mu_clamped (-0.5)
GaussSeeds == {0, 42}
MuPriors == {<<11, 10>>, <<0, 1>>}
SigmaPriors == {<<6, 5>>, <<1, 2>>}
SigmaXs == {<<13, 10>>, <<2, 1>>}
MuClampeds == {<<-1, 2>>, <<1, 1>>}
GaussLiterals ==
    [gseed : GaussSeeds, gN : 1..MaxObs, mu_prior : MuPriors, sigma_prior : SigmaPriors,
     sigma_x : SigmaXs, mu_clamped : MuClampeds]

Unbound == <<>>

(* ------------------------------ cells ---------------------------------- *)
credibleVars == <<theta_real, ntrials, N1, N0, aprior, bprior, apost, bpost,
                  alpha, CI1, CI2, samples, CI3>>
pointVars == <<grid, lossf_a, lossf_b, mini, est>>
ctl == <<err, lit, run, prev>>

\* lines 131-137: the lists of the posterior plot
PlotSetup ==
    /\ pc = "plot"
    /\ n_trials' = lit.n_trials
    /\ data' = lit.data
    /\ theta_real' = SourceThetaReal
    /\ beta_params' = lit.beta_params
    /\ it' = 0
    /\ pc' = "plot_loop"
    /\ UNCHANGED <<laterVars, ctl, rng, idx, N, y, p_theta_given_y, ntrials, N1, N0, aprior, bprior,
                   apost, bpost, alpha, CI1, CI2, samples, CI3, pointVars, gaussVars>>

\* lines 139-156: one iteration of "for idx, N in enumerate(n_trials)"
PlotStep ==
    /\ pc = "plot_loop"
    /\ it < Len(n_trials)
    /\ idx' = it
    /\ N' = n_trials[it + 1]
    /\ y' = data[idx' + 1]
    /\ p_theta_given_y' =
           [j \in 1..Len(beta_params) |->
               PlotPosterior(beta_params[j][1], beta_params[j][2], N', y')]
    /\ it' = it + 1
    /\ UNCHANGED <<laterVars, pc, ctl, rng, n_trials, data, beta_params, credibleVars, pointVars, gaussVars>>

\* line 157: the loop is over
PlotEnd ==
    /\ pc = "plot_loop"
    /\ it = Len(n_trials)
    /\ pc' = "credible"
    /\ UNCHANGED <<laterVars, ctl, rng, it, betaVars, gaussVars>>

\* lines 172-175: seed the generator and draw the Bernoulli data
CredibleData ==
    /\ pc = "credible"
    /\ theta_real' = SourceThetaReal
    /\ ntrials' = lit.ntrials
    /\ data' = BernoulliRvs(theta_real', ntrials', SeedState(lit.seed))
    /\ rng' = RngAfter(SeedState(lit.seed), ntrials')
    /\ pc' = "stats"
    /\ UNCHANGED <<laterVars, ctl, it, n_trials, beta_params, idx, N, y, p_theta_given_y, N1, N0,
                   aprior, bprior, apost, bpost, alpha, CI1, CI2, samples, CI3, pointVars, gaussVars>>

\* lines 177-179: sufficient statistics, prior, posterior
SufficientStats ==
    /\ pc = "stats"
    /\ N' = ntrials
    /\ N1' = Sum(data)
    /\ N0' = Failures(N', N1')
    /\ aprior' = lit.prior[1]
    /\ bprior' = lit.prior[2]
    /\ apost' = Posterior(aprior', bprior', N1', N0')[1]
    /\ bpost' = Posterior(aprior', bprior', N1', N0')[2]
    /\ pc' = "ci1"
    /\ UNCHANGED <<laterVars, ctl, rng, it, n_trials, data, beta_params, idx, y, p_theta_given_y,
                   theta_real, ntrials, alpha, CI1, CI2, samples, CI3, pointVars, gaussVars>>

\* lines 182-184: the library's interval; it raises ValueError outside [0, 1]
IntervalFunction ==
    /\ pc = "ci1"
    /\ alpha' = lit.alpha
    /\ LET conf == RSub(FromInt(1), alpha')
       IN  IF RLt(conf, FromInt(0)) \/ RLt(FromInt(1), conf)
           THEN /\ err' = "ValueError"
                /\ pc' = "raised"
                /\ CI1' = CI1
           ELSE /\ err' = err
                /\ pc' = "ci2"
                /\ CI1' = BetaInterval(conf, apost, bpost)
    /\ UNCHANGED <<laterVars, lit, run, prev, rng, it, n_trials, data, beta_params, idx, N, y,
                   p_theta_given_y, theta_real, ntrials, N1, N0, aprior, bprior, apost,
                   bpost, CI2, samples, CI3, pointVars, gaussVars>>

\* lines 187-190: the inverse CDF
InverseCdf ==
    /\ pc = "ci2"
    /\ CI2' = PpfInterval(alpha, apost, bpost)
    /\ pc' = "ci3"
    /\ UNCHANGED <<laterVars, ctl, rng, it, n_trials, data, beta_params, idx, N, y, p_theta_given_y,
                   theta_real, ntrials, N1, N0, aprior, bprior, apost, bpost, alpha, CI1,
                   samples, CI3, pointVars, gaussVars>>

\* lines 193-197: Monte Carlo sampling
MonteCarlo ==
    /\ pc = "ci3"
    /\ samples' = NpSort(BetaRvs(apost, bpost, NumSamples, rng))
    /\ rng' = RngAfter(rng, NumSamples)
    /\ CI3' = PercentileInterval(alpha, samples')
    /\ pc' = "point"
    /\ UNCHANGED <<laterVars, ctl, it, n_trials, data, beta_params, idx, N, y, p_theta_given_y,
                   theta_real, ntrials, N1, N0, aprior, bprior, apost, bpost, alpha, CI1,
                   CI2, pointVars, gaussVars>>

\* lines 229-241: point estimates by minimising the two losses over the grid
PointEstimates ==
    /\ pc = "point"
    /\ grid' = Linspace(FromInt(0), FromInt(1), GridPoints)
    /\ lossf_a' = LossL1(grid', samples)
    /\ lossf_b' = LossL2(grid', samples)
    /\ mini' = ArgMin(lossf_b')
    /\ est' = <<grid'[ArgMin(lossf_a') + 1], grid'[ArgMin(lossf_b') + 1]>>
    /\ pc' = "done"
    /\ UNCHANGED <<laterVars, ctl, rng, it, n_trials, data, beta_params, idx, N, y, p_theta_given_y,
                   credibleVars, gaussVars>>

\* the cells are run again in the same kernel, the generator left where it was
RunAgain ==
    /\ pc = "done"
    /\ run < MaxRuns
    /\ run' = run + 1
    /\ prev' = [data |-> data, N1 |-> N1, apost |-> apost, bpost |-> bpost,
                samples |-> samples, CI3 |-> CI3]
    /\ pc' = "plot"
    /\ UNCHANGED <<laterVars, err, lit, rng, it, betaVars, gaussVars>>

GaussUnbound ==
    /\ x = Unbound
    /\ mu_prior = Unbound
    /\ sigma_prior = Unbound
    /\ Sigma_prior = Unbound
    /\ sigma_x = Unbound
    /\ Sigma_x = Unbound
    /\ Sigma_post = Unbound
    /\ xbar = Unbound
    /\ mu_post = Unbound
    /\ model = Unbound
    /\ mu_clamped = Unbound
    /\ logp = Unbound
    /\ log_prior = Unbound
    /\ log_lik = Unbound
    /\ log_joint = Unbound

LaterUnbound ==
    /\ trace = Unbound
    /\ post = Unbound
    /\ data_clean = Unbound
    /\ ngroups = Unbound
    /\ comparisons = Unbound
    /\ pos = Unbound
    /\ ax = Unbound

Init ==
    /\ pc = "plot"
    /\ err = "none"
    /\ lit \in BetaLiterals
    /\ rng \in 0..(RngMod - 1)
    /\ run = 1
    /\ prev = Unbound
    /\ it = 0
    /\ n_trials = Unbound
    /\ data = Unbound
    /\ beta_params = Unbound
    /\ idx = Unbound
    /\ N = Unbound
    /\ y = Unbound
    /\ p_theta_given_y = Unbound
    /\ theta_real = Unbound
    /\ ntrials = Unbound
    /\ N1 = Unbound
    /\ N0 = Unbound
    /\ aprior = Unbound
    /\ bprior = Unbound
    /\ apost = Unbound
    /\ bpost = Unbound
    /\ alpha = Unbound
    /\ CI1 = Unbound
    /\ CI2 = Unbound
    /\ samples = Unbound
    /\ CI3 = Unbound
    /\ grid = Unbound
    /\ lossf_a = Unbound
    /\ lossf_b = Unbound
    /\ mini = Unbound
    /\ est = Unbound
    /\ GaussUnbound
    /\ LaterUnbound

Next ==
    \/ PlotSetup
    \/ PlotStep
    \/ PlotEnd
    \/ CredibleData
    \/ SufficientStats
    \/ IntervalFunction
    \/ InverseCdf
    \/ MonteCarlo
    \/ PointEstimates
    \/ RunAgain

Spec == Init /\ [][Next]_vars

(* ============================ 1d Gaussian ============================== *)
\* np.random.randn: the normal variate a generator state yields
Randn(s) == Rat((s % 9) - 4, 2)
\* np.random.randn(n) drawn from generator state s
RandnSeq(s, n) == [i \in 1..n |-> Randn(RngAfter(s, i))]

\* sigma**2
Square(p) == RMul(p, p)
\* the likelihood's precision inverted
PosteriorVarianceInverted(Sp, n, Sx) ==
    RDiv(FromInt(1), RAdd(RDiv(FromInt(1), Sp), RDiv(Sx, FromInt(n))))
\* Sigma_post = 1/( 1/Sigma_prior + N/Sigma_x )
PosteriorVariance(Sp, n, Sx) ==
    RDiv(FromInt(1), RAdd(RDiv(FromInt(1), Sp), RDiv(FromInt(n), Sx)))
\* mu_post = Sigma_post * (1/Sigma_x * N * xbar + 1/Sigma_prior * mu_prior)
PosteriorMean(Spost, Sx, n, xb, Sp, mp) ==
    RMul(Spost, RAdd(RMul(RMul(RDiv(FromInt(1), Sx), FromInt(n)), xb),
                     RMul(RDiv(FromInt(1), Sp), mp)))

(* Logarithms, exactly: a value r + cpi*log(pi) + sum over primes p of      *)
(* lp[p]*log(p).  log(pi) and the logs of the primes are linearly           *)
(* independent over the rationals, so two values are equal iff their        *)
(* coefficients are.                                                        *)
LogPrimes == {2, 3, 5, 7, 11, 13}
RECURSIVE Valuation(_, _)
Valuation(p, n) == IF n % p = 0 THEN 1 + Valuation(p, n \div p) ELSE 0

LFRat(r) == [r |-> r, cpi |-> FromInt(0), lp |-> [p \in LogPrimes |-> FromInt(0)]]
LFAdd(f, g) ==
    [r |-> RAdd(f.r, g.r), cpi |-> RAdd(f.cpi, g.cpi),
     lp |-> [p \in LogPrimes |-> RAdd(f.lp[p], g.lp[p])]]
LFScale(c, f) ==
    [r |-> RMul(c, f.r), cpi |-> RMul(c, f.cpi), lp |-> [p \in LogPrimes |-> RMul(c, f.lp[p])]]
LFSub(f, g) == LFAdd(f, LFScale(FromInt(-1), g))
\* log(q) for a rational q > 0 whose prime factors lie in LogPrimes
LFLog(q) ==
    [r |-> FromInt(0), cpi |-> FromInt(0),
     lp |-> [p \in LogPrimes |-> FromInt(Valuation(p, q[1]) - Valuation(p, q[2]))]]
LFLogPi == [r |-> FromInt(0), cpi |-> FromInt(1), lp |-> [p \in LogPrimes |-> FromInt(0)]]
RECURSIVE LFSumFrom(_, _)
LFSumFrom(s, i) == IF i > Len(s) THEN LFRat(FromInt(0)) ELSE LFAdd(s[i], LFSumFrom(s, i + 1))
\* np.sum
LFSum(s) == LFSumFrom(s, 1)

\* scipy.stats.norm(loc, scale).logpdf(v) = -z**2/2 - log(sqrt(2*pi)) - log(scale),
\* z = (v - loc)/scale
NormLogpdf(v, loc, scale) ==
    LET z == RDiv(RSub(v, loc), scale)
        logC == LFScale(<<1, 2>>, LFAdd(LFLog(FromInt(2)), LFLogPi))
    IN  LFSub(LFSub(LFRat(RDiv(RNeg(Square(z)), FromInt(2))), logC), LFLog(scale))

\* pm.Normal(mu, sd).logp(v) = (-tau*(v - mu)**2 + log(tau/pi/2))/2, tau = sd**-2
PmNormalLogp(v, mu, sd) ==
    LET tau == RInv(Square(sd))
    IN  LFScale(<<1, 2>>,
                LFAdd(LFRat(RNeg(RMul(tau, Square(RSub(v, mu))))),
                      LFSub(LFSub(LFLog(tau), LFLogPi), LFLog(FromInt(2)))))

\* the variance passed where the standard deviation is expected
PmModelVariance(mp, sp, sx, obsv) ==
    [mu_mu |-> mp, mu_sd |-> sp, obs_sd |-> Square(sx), observed |-> obsv]
\* with pm.Model() as model: mu = pm.Normal('mu', mu=mu_prior, sd=sigma_prior);
\* obs = pm.Normal('obs', mu=mu, sd=sigma_x, observed=x)
PmModel(mp, sp, sx, obsv) == [mu_mu |-> mp, mu_sd |-> sp, obs_sd |-> sx, observed |-> obsv]
\* model.logp({'mu': v}): the sum of the log-densities of mu and of every observation
ModelLogp(m, v) ==
    LFAdd(PmNormalLogp(v, m.mu_mu, m.mu_sd),
          LFSum([i \in 1..Len(m.observed) |-> PmNormalLogp(m.observed[i], v, m.obs_sd)]))

\* log_prior = scipy.stats.norm(mu_prior, sigma_prior).logpdf(mu_clamped)
HandLogPrior(mp, sp, v) == NormLogpdf(v, mp, sp)
\* log_lik = np.sum(scipy.stats.norm(mu_clamped, sigma_x).logpdf(x))
HandLogLik(v, sx, obsv) == LFSum([i \in 1..Len(obsv) |-> NormLogpdf(obsv[i], v, sx)])

\* np.isclose(a, b), decided by the absolute tolerance 1e-8 alone: the difference has no
\* logarithmic part and its rational part is at most 1e-8
IsClose(f, g) ==
    LET d == LFSub(f, g)
    IN  /\ d.cpi[1] = 0
        /\ \A p \in LogPrimes : d.lp[p][1] = 0
        /\ (d.r[1] = 0 \/ d.r[2] \div Abs(d.r[1]) >= 100000000)

gaussPriorVars == <<mu_prior, sigma_prior, Sigma_prior, sigma_x, Sigma_x>>
gaussPostVars == <<Sigma_post, xbar, mu_post>>
gaussLogVars == <<mu_clamped, logp, log_prior, log_lik, log_joint>>

\* lines 320-322: the synthetic data
GaussData ==
    /\ pc = "gauss"
    /\ rng' = RngAfter(SeedState(lit.gseed), lit.gN)
    /\ N' = lit.gN
    /\ x' = RandnSeq(SeedState(lit.gseed), lit.gN)
    /\ pc' = "gauss_prior"
    /\ UNCHANGED <<laterVars, ctl, it, n_trials, data, beta_params, idx, y, p_theta_given_y,
                   credibleVars, pointVars, gaussPriorVars, gaussPostVars, model,
                   gaussLogVars>>

\* lines 325-331: parameters of prior and likelihood
GaussParams ==
    /\ pc = "gauss_prior"
    /\ mu_prior' = lit.mu_prior
    /\ sigma_prior' = lit.sigma_prior
    /\ Sigma_prior' = Square(sigma_prior')
    /\ sigma_x' = lit.sigma_x
    /\ Sigma_x' = Square(sigma_x')
    /\ pc' = "bayes"
    /\ UNCHANGED <<laterVars, ctl, rng, it, betaVars, x, gaussPostVars, model, gaussLogVars>>

\* lines 334-337: Bayes rule for Gaussians; a float division by zero raises
BayesRule ==
    /\ pc = "bayes"
    /\ IF Sigma_prior[1] = 0 \/ Sigma_x[1] = 0
       THEN /\ err' = "ZeroDivisionError"
            /\ pc' = "raised"
            /\ UNCHANGED gaussPostVars
       ELSE /\ Sigma_post' = PosteriorVariance(Sigma_prior, N, Sigma_x)
            /\ xbar' = Mean(x)
            /\ mu_post' = PosteriorMean(Sigma_post', Sigma_x, N, xbar', Sigma_prior, mu_prior)
            /\ err' = err
            /\ pc' = "gauss_model"
    /\ UNCHANGED <<laterVars, lit, run, prev, rng, it, betaVars, x, gaussPriorVars, model, gaussLogVars>>

\* lines 347-350: the model is built from the values the names have now
GaussModel ==
    /\ pc = "gauss_model"
    /\ model' = PmModel(mu_prior, sigma_prior, sigma_x, x)
    /\ pc' = "logp"
    /\ UNCHANGED <<laterVars, ctl, rng, it, betaVars, x, gaussPriorVars, gaussPostVars, gaussLogVars>>

\* lines 368-376: the log joint by the model and by hand, and the assertion
LogJoint ==
    /\ pc = "logp"
    /\ mu_clamped' = lit.mu_clamped
    /\ logp' = ModelLogp(model, mu_clamped')
    /\ log_prior' = HandLogPrior(mu_prior, sigma_prior, mu_clamped')
    /\ log_lik' = HandLogLik(mu_clamped', sigma_x, x)
    /\ log_joint' = LFAdd(log_prior', log_lik')
    /\ IF IsClose(logp', log_joint')
       THEN err' = err /\ pc' = "gauss_done"
       ELSE err' = "AssertionError" /\ pc' = "raised"
    /\ UNCHANGED <<laterVars, lit, run, prev, rng, it, betaVars, x, gaussPriorVars, gaussPostVars, model>>

BetaUnbound ==
    /\ n_trials = Unbound
    /\ data = Unbound
    /\ beta_params = Unbound
    /\ idx = Unbound
    /\ N = Unbound
    /\ y = Unbound
    /\ p_theta_given_y = Unbound
    /\ theta_real = Unbound
    /\ ntrials = Unbound
    /\ N1 = Unbound
    /\ N0 = Unbound
    /\ aprior = Unbound
    /\ bprior = Unbound
    /\ apost = Unbound
    /\ bpost = Unbound
    /\ alpha = Unbound
    /\ CI1 = Unbound
    /\ CI2 = Unbound
    /\ samples = Unbound
    /\ CI3 = Unbound
    /\ grid = Unbound
    /\ lossf_a = Unbound
    /\ lossf_b = Unbound
    /\ mini = Unbound
    /\ est = Unbound

InitGauss ==
    /\ pc = "gauss"
    /\ err = "none"
    /\ lit \in GaussLiterals
    /\ rng \in 0..(RngMod - 1)
    /\ run = 1
    /\ prev = Unbound
    /\ it = 0
    /\ BetaUnbound
    /\ GaussUnbound
    /\ LaterUnbound

NextGauss ==
    \/ GaussData
    \/ GaussParams
    \/ BayesRule
    \/ GaussModel
    \/ LogJoint

SpecGauss == InitGauss /\ [][NextGauss]_vars

(* ============================== claims ================================= *)
\* positions at which apost and bpost hold the posterior of the current run
AfterStats == {"ci1", "ci2", "ci3", "point", "done"}
\* the number of successes among the outcomes d
Successes(d) == Cardinality({i \in 1..Len(d) : d[i] = 1})

\* C1: the posterior parameters are exactly alpha + k and beta + N - k, for the k successes
\* among the N Bernoulli outcomes and for every (N, y) of the posterior plot, so they
\* add up to alpha + beta + N.
C1_BetaBinomialUpdate ==
    /\ pc \in AfterStats =>
          /\ apost = aprior + Successes(data)
          /\ bpost = bprior + Len(data) - Successes(data)
          /\ apost + bpost = aprior + bprior + Len(data)
    /\ (pc = "plot_loop" /\ it > 0) =>
          \A j \in 1..Len(beta_params) :
              /\ p_theta_given_y[j][1] = beta_params[j][1] + data[it]
              /\ p_theta_given_y[j][2] = beta_params[j][2] + n_trials[it] - data[it]
              /\ p_theta_given_y[j][1] + p_theta_given_y[j][2]
                     = beta_params[j][1] + beta_params[j][2] + n_trials[it]
C1_Witness == pc = "ci1" /\ N1 > 0 /\ N0 > 0 /\ N1 # N0

\* C3: the grid point of least L2 loss is within one grid step of the sample mean, and
\* the grid point of least L1 loss within one grid step of a sample median.
C3_PointEstimateNearMeanMedian ==
    pc = "done" =>
        LET step == RSub(grid[2], grid[1])
            srt == NpSort(samples)
            n == Len(srt)
            lowMedian == srt[(n + 1) \div 2]
            highMedian == srt[n \div 2 + 1]
        IN  /\ RLe(RAbs(RSub(est[2], Mean(samples))), step)
            /\ \/ RLe(RAbs(RSub(est[1], lowMedian)), step)
               \/ RLe(RAbs(RSub(est[1], highMedian)), step)
C3_Witness ==
    /\ pc = "done"
    /\ est[1] # est[2]
    /\ \A i \in 1..Len(grid) : grid[i] # Mean(samples)

\* the first position of grid at which loss is least, and no position before it ties
FirstMinimiser(m, loss) ==
    /\ \A j \in 1..Len(loss) : RLe(loss[m], loss[j])
    /\ \A j \in 1..(m - 1) : RLt(loss[m], loss[j])

\* C4: the point estimate is a grid element of least loss over the whole grid, the first
\* such element in grid order when several tie.
C4_FirstMinimiser ==
    pc = "done" =>
        /\ \E m \in 1..Len(grid) : grid[m] = est[1] /\ FirstMinimiser(m, lossf_a)
        /\ grid[mini + 1] = est[2] /\ FirstMinimiser(mini + 1, lossf_b)
C4_Witness ==
    /\ pc = "done"
    /\ \E m \in 1..Len(grid) :
          /\ grid[m] = est[1]
          /\ \E j \in (m + 1)..Len(grid) : lossf_a[j] = lossf_a[m]

\* C5: with level = 1 - alpha, beta.interval, beta.ppf and the percentile method cut at
\* the same probabilities (1-level)/2 and 1-(1-level)/2; the two tails are equal and sum
\* to 1 - level.
C5_SymmetricTails ==
    pc \in {"ci2", "ci3", "point", "done"} =>
        LET level == RSub(FromInt(1), alpha)
            lo == RDiv(RSub(FromInt(1), level), FromInt(2))
            hi == RSub(FromInt(1), RDiv(RSub(FromInt(1), level), FromInt(2)))
        IN  /\ IntervalTails(level) = <<lo, hi>>
            /\ PpfTails(alpha) = <<lo, hi>>
            /\ PercentileArgs(alpha) = <<RMul(FromInt(100), lo), RMul(FromInt(100), hi)>>
            /\ lo = RSub(FromInt(1), hi)
            /\ RAdd(lo, RSub(FromInt(1), hi)) = RSub(FromInt(1), level)
            /\ pc # "ci2" => CI1 = CI2
C5_Witness == pc = "point" /\ CI1 = CI2 /\ RLt(CI1[1], CI1[2]) /\ RLt(CI3[1], CI3[2])

\* levels 1 - al the intervals are compared at
CheckAlphas == Alphas \cup {<<1, 100>>, <<1, 10>>, <<3, 10>>, <<3, 4>>, <<9, 10>>}
Nested(inner, outer) ==
    /\ RLe(outer[1], inner[1])
    /\ RLe(inner[1], inner[2])
    /\ RLe(inner[2], outer[2])

\* C6: for the same posterior and the same samples, the interval of a higher level
\* contains the interval of a lower level, and lower <= upper, for the inverse-CDF
\* interval and for the percentile interval.
C6_NestedInLevel ==
    pc \in {"point", "done"} =>
        /\ CI2 = PpfInterval(alpha, apost, bpost)
        /\ CI3 = PercentileInterval(alpha, samples)
        /\ \A a1, a2 \in CheckAlphas :
              RLt(a2, a1) =>
                  /\ Nested(PpfInterval(a1, apost, bpost), PpfInterval(a2, apost, bpost))
                  /\ Nested(PercentileInterval(a1, samples), PercentileInterval(a2, samples))
C6_Witness ==
    /\ pc = "point"
    /\ \E a1, a2 \in CheckAlphas :
          /\ RLt(a2, a1)
          /\ RLt(PpfInterval(a2, apost, bpost)[1], PpfInterval(a1, apost, bpost)[1])
          /\ RLt(PpfInterval(a1, apost, bpost)[2], PpfInterval(a2, apost, bpost)[2])
          /\ RLt(PercentileInterval(a2, samples)[1], PercentileInterval(a1, samples)[1])
          /\ RLt(PercentileInterval(a1, samples)[2], PercentileInterval(a2, samples)[2])

\* C8: a second execution with the same seed, started from whatever state the generator
\* was left in, draws the same data and samples and gets the same N1, posterior and CI3.
C8_Reproducible ==
    (run > 1 /\ pc \in {"point", "done"}) =>
        /\ data = prev.data
        /\ N1 = prev.N1
        /\ apost = prev.apost
        /\ bpost = prev.bpost
        /\ samples = prev.samples
        /\ CI3 = prev.CI3
C8_Witness ==
    /\ run > 1
    /\ pc = "done"
    /\ Len(data) = MaxTrials
    /\ SeedState(lit.seed) # RngAfter(SeedState(lit.seed), Len(data) + NumSamples)

\* C9: every observation summary the source computes is valid, 0 <= successes <= trials,
\* and every posterior parameter is at least the prior's, which is positive.
C9_ValidObservations ==
    /\ (pc = "plot_loop" /\ it > 0) =>
          /\ 0 <= y /\ y <= N
          /\ \A j \in 1..Len(beta_params) :
                /\ p_theta_given_y[j][1] >= beta_params[j][1] /\ beta_params[j][1] > 0
                /\ p_theta_given_y[j][2] >= beta_params[j][2] /\ beta_params[j][2] > 0
    /\ pc \in AfterStats =>
          /\ 0 <= N1 /\ N1 <= N
          /\ apost >= aprior /\ aprior > 0
          /\ bpost >= bprior /\ bprior > 0
C9_Witness == pc = "ci1" /\ lit.prior = <<1, 1>> /\ N1 = N /\ N > 0 /\ y = 48

C10_LogJointMatchesHand ==
    pc \in {"gauss_done", "raised"} =>
        /\ pc = "gauss_done"
        /\ err = "none"
        /\ log_joint = LFAdd(log_prior, log_lik)
        /\ logp = log_joint
        /\ IsClose(logp, log_joint)
C10_Witness ==
    /\ pc = "gauss_done"
    /\ Len(x) > 1
    /\ logp.r[1] # 0
    /\ \E p \in LogPrimes : logp.lp[p][1] # 0

(* ================== literals outside the valid domain ================== *)
\* a cell run with any literals in place of the source's
AnyPriors == {<<1, 1>>, <<0, 1>>, <<-1, 2>>, <<1, 0>>, <<2, -3>>}
AnyAlphas == {<<1, 20>>, <<0, 1>>, <<1, 1>>, <<-1, 2>>, <<3, 2>>}
AnyPlotLists ==
    {<<SourceNTrials, SourceData>>, <<<<1, 2, 0>>, <<2, -1, 1>>>>, <<<<3, 3>>, <<0, 3>>>>}
AnyBetaParams == {SourceBetaParams, <<<<0, 1>>, <<-1, -1>>, <<2, 0>>>>}
AnyBetaLiterals ==
    {[seed |-> 42, ntrials |-> n, prior |-> pr, alpha |-> al,
      n_trials |-> pl[1], data |-> pl[2], beta_params |-> bp] :
        n \in 0..MaxTrials, pr \in AnyPriors, al \in AnyAlphas,
        pl \in AnyPlotLists, bp \in AnyBetaParams}
AnySigmas == {<<6, 5>>, <<13, 10>>, <<0, 1>>, <<-1, 1>>}
AnyGaussLiterals ==
    [gseed : {0}, gN : 1..MaxObs, mu_prior : {<<11, 10>>}, sigma_prior : AnySigmas,
     sigma_x : AnySigmas, mu_clamped : {<<-1, 2>>}]

InitUnchecked ==
    /\ \/ pc = "plot" /\ lit \in AnyBetaLiterals
       \/ pc = "gauss" /\ lit \in AnyGaussLiterals
    /\ err = "none"
    /\ rng = 0
    /\ run = 1
    /\ prev = Unbound
    /\ it = 0
    /\ BetaUnbound
    /\ GaussUnbound
    /\ LaterUnbound

NextUnchecked ==
    \/ PlotSetup
    \/ PlotStep
    \/ PlotEnd
    \/ CredibleData
    \/ SufficientStats
    \/ IntervalFunction
    \/ InverseCdf
    \/ GaussData
    \/ GaussParams
    \/ BayesRule

SpecUnchecked == InitUnchecked /\ [][NextUnchecked]_vars

ValidShape(a, b) == a > 0 /\ b > 0
ValidCounts(n, heads) == 0 <= heads /\ heads <= n
LevelInOpenUnit(al) == RLt(FromInt(0), RSub(FromInt(1), al)) /\ RLt(RSub(FromInt(1), al), FromInt(1))
LevelInClosedUnit(al) == RLe(FromInt(0), RSub(FromInt(1), al)) /\ RLe(RSub(FromInt(1), al), FromInt(1))

SourceShifts == <<<<51, 1>>, <<55, 1>>, <<107, 2>>, <<50, 1>>, <<63, 1>>>>

\* the column 'day' of tips.csv (line 546), read from the network
SourceDay == <<"Sun", "Sat", "Thur", "Fri">>

\* the literals of the whole notebook: those of the Beta cells, those of the Gaussian
\* cells, and the columns read from the two files
NotebookLiterals ==
    [seed : {42}, ntrials : 0..MaxTrials, prior : Priors, alpha : {<<1, 20>>},
     n_trials : {SourceNTrials}, data : {SourceData}, beta_params : {SourceBetaParams},
     gseed : {0}, gN : 1..MaxObs, mu_prior : MuPriors, sigma_prior : {<<6, 5>>},
     sigma_x : {<<13, 10>>}, mu_clamped : {<<-1, 2>>}, shifts : {SourceShifts},
     day : {SourceDay}]

\* the list bound to data by line 132 observed instead of the value data has now
PmBetaModelFirstData(a, b, obsv) == [alpha |-> a, beta |-> b, observed |-> SourceData]
\* with pm.Model() as model: θ = pm.Beta('θ', alpha=aprior, beta=bprior);
\* y = pm.Bernoulli('y', p=θ, observed=data)
PmBetaModel(a, b, obsv) == [alpha |-> a, beta |-> b, observed |-> obsv]

\* lines 252-261: the Beta-Bernoulli model, built from the values the names have now;
\* y is bound to the observed random variable
BetaModel ==
    /\ pc = "done"
    /\ model' = PmBetaModel(aprior, bprior, data)
    /\ y' = [rv |-> "y", observed |-> data]
    /\ pc' = "sample"
    /\ UNCHANGED <<laterVars, ctl, rng, it, n_trials, data, beta_params, idx, N,
                   p_theta_given_y, credibleVars, pointVars, x, gaussPriorVars,
                   gaussPostVars, gaussLogVars>>

\* lines 264-289: pm.sample on the model named model; the sampler leaves the generator
\* in a state the notebook does not fix
Sample ==
    /\ pc = "sample"
    /\ trace' = [model |-> model, random_seed |-> 123]
    /\ rng' \in 0..(RngMod - 1)
    /\ pc' = "advi"
    /\ UNCHANGED <<ctl, it, betaVars, gaussVars, post, data_clean, ngroups, comparisons,
                   pos, ax>>

\* lines 298-309: pm.fit(niter, method='advi') on the model named model
Advi ==
    /\ pc = "advi"
    /\ post' = [model |-> model, method |-> "advi"]
    /\ rng' \in 0..(RngMod - 1)
    /\ pc' = "gauss"
    /\ UNCHANGED <<ctl, it, betaVars, gaussVars, trace, data_clean, ngroups, comparisons,
                   pos, ax>>

\* lines 384-393: data is bound to the chemical shifts
ChemicalShifts ==
    /\ pc = "gauss_done"
    /\ data' = lit.shifts
    /\ pc' = "robust"
    /\ UNCHANGED <<laterVars, ctl, rng, it, n_trials, beta_params, idx, N, y,
                   p_theta_given_y, credibleVars, pointVars, gaussVars>>

\* lines 409-477: model_g and model_t observe data; y is bound to the observed variable
RobustModels ==
    /\ pc = "robust"
    /\ y' = [rv |-> "y", observed |-> data]
    /\ rng' \in 0..(RngMod - 1)
    /\ pc' = "clean"
    /\ UNCHANGED <<laterVars, ctl, it, n_trials, data, beta_params, idx, N,
                   p_theta_given_y, credibleVars, pointVars, gaussVars>>


(* --------------------------- removeOutliers ---------------------------- *)
\* float arithmetic and comparison: NaN propagates, and compares false with everything
FAdd(p, q) == IF IsNaN(p) \/ IsNaN(q) THEN NaN ELSE RAdd(p, q)
FSub(p, q) == IF IsNaN(p) \/ IsNaN(q) THEN NaN ELSE RSub(p, q)
FMul(p, q) == IF IsNaN(p) \/ IsNaN(q) THEN NaN ELSE RMul(p, q)
FLe(p, q) == ~IsNaN(p) /\ ~IsNaN(q) /\ RLe(p, q)
FGe(p, q) == FLe(q, p)

\* np.percentile(a, q) of an array of floats: NaN as soon as one element is NaN
NpPercentile(arr, q) ==
    IF \E n \in 1..Len(arr) : IsNaN(arr[n]) THEN NaN ELSE Percentile(arr, q)

\* outlierConstant=1.5
DefaultOutlierConstant == <<3, 2>>

\* the fences excluded
RemoveOutliersStrict(xs, outlierConstant) ==
    LET a == xs
        upper_quartile == NpPercentile(a, FromInt(75))
        lower_quartile == NpPercentile(a, FromInt(25))
        IQR == FMul(FSub(upper_quartile, lower_quartile), outlierConstant)
        quartileSet == <<FSub(lower_quartile, IQR), FAdd(upper_quartile, IQR)>>
        Kept(v) == ~FLe(v, quartileSet[1]) /\ ~FGe(v, quartileSet[2]) /\ ~IsNaN(v)
    IN  SelectSeq(a, Kept)
\* lines 502-509, def removeOutliers(x, outlierConstant=1.5): a is a copy of x, the
\* mask keeps the positions with a >= quartileSet[0] and a <= quartileSet[1]
RemoveOutliers(xs, outlierConstant) ==
    LET a == xs
        upper_quartile == NpPercentile(a, FromInt(75))
        lower_quartile == NpPercentile(a, FromInt(25))
        IQR == FMul(FSub(upper_quartile, lower_quartile), outlierConstant)
        quartileSet == <<FSub(lower_quartile, IQR), FAdd(upper_quartile, IQR)>>
        Kept(v) == FGe(v, quartileSet[1]) /\ FLe(v, quartileSet[2])
    IN  SelectSeq(a, Kept)

\* lines 511-516: data_clean = removeOutliers(data)
CleanData ==
    /\ pc = "clean"
    /\ data_clean' = RemoveOutliers(data, DefaultOutlierConstant)
    /\ pc' = "tips"
    /\ UNCHANGED <<ctl, rng, it, betaVars, gaussVars, trace, post, ngroups, comparisons,
                   pos, ax>>

(* ------------------------- comparing the groups ------------------------ *)
\* days = ['Thur', 'Fri', 'Sat', 'Sun']
Days == <<"Thur", "Fri", "Sat", "Sun">>
\* pd.Categorical(values, categories).codes: the 0-based position of each value in
\* categories, -1 for a value that is not a category
CategoricalCodes(values, categories) ==
    [n \in 1..Len(values) |->
        IF \E c \in 1..Len(categories) : categories[c] = values[n]
        THEN (CHOOSE c \in 1..Len(categories) : categories[c] = values[n]) - 1
        ELSE -1]
\* len(np.unique(codes))
NumUnique(codes) == Cardinality({codes[n] : n \in 1..Len(codes)})

\* [(i, j) for i in range(ng) for j in range(i+1, ng)], from (i, j) on
RECURSIVE ComparisonsFrom(_, _, _)
ComparisonsFrom(i, j, ng) ==
    IF i >= ng THEN <<>>
    ELSE IF j >= ng THEN ComparisonsFrom(i + 1, i + 2, ng)
    ELSE <<<<i, j>>>> \o ComparisonsFrom(i, j + 1, ng)
Comparisons(ng) == ComparisonsFrom(0, 1, ng)

\* one position a row
RECURSIVE PositionsOneColumnFrom(_, _)
PositionsOneColumnFrom(k, ng) ==
    IF k >= ng - 1 THEN <<>> ELSE <<<<k, 0>>>> \o PositionsOneColumnFrom(k + 1, ng)
PositionsOneColumn(ng) == PositionsOneColumnFrom(0, ng)
\* [(k, l) for k in range(ng-1) for l in (0, 1)], from row k on
RECURSIVE PositionsFrom(_, _)
PositionsFrom(k, ng) ==
    IF k >= ng - 1 THEN <<>> ELSE <<<<k, 0>>, <<k, 1>>>> \o PositionsFrom(k + 1, ng)
Positions(ng) == PositionsFrom(0, ng)

\* list(zip(s, t)): as long as the shorter of the two
Zip(s, t) ==
    [n \in 1..(IF Len(s) <= Len(t) THEN Len(s) ELSE Len(t)) |-> <<s[n], t[n]>>]

\* fig, ax = plt.subplots(3, 2): the positions of the array of axes
AxRows == 3
AxCols == 2
AxPositions == (0..(AxRows - 1)) \X (0..(AxCols - 1))
\* an axis nothing was drawn on
EmptyAxis == [title |-> <<>>, plots |-> <<>>]

\* lines 545-583: the tips, the code of each row's day, the number of groups, model_cg
Tips ==
    /\ pc = "tips"
    /\ x' = lit.day
    /\ idx' = CategoricalCodes(lit.day, Days)
    /\ ngroups' = NumUnique(idx')
    /\ y' = [rv |-> "y", observed |-> "tip_amount"]
    /\ rng' \in 0..(RngMod - 1)
    /\ pc' = "compare"
    /\ UNCHANGED <<ctl, it, n_trials, data, beta_params, N, p_theta_given_y, credibleVars,
                   pointVars, gaussPriorVars, gaussPostVars, model, gaussLogVars, trace,
                   post, data_clean, comparisons, pos, ax>>

\* lines 594-597: the axes, the pairs to compare and the positions of their plots
CompareSetup ==
    /\ pc = "compare"
    /\ ax' = [p \in AxPositions |-> EmptyAxis]
    /\ comparisons' = Comparisons(ngroups)
    /\ pos' = Positions(ngroups)
    /\ it' = 0
    /\ pc' = "compare_loop"
    /\ UNCHANGED <<ctl, rng, betaVars, gaussVars, trace, post, data_clean, ngroups>>

\* lines 599-608: one iteration of "for (i, j), (k, l) in zip(comparisons, pos)";
\* ax[k, l] outside the array raises IndexError
CompareStep ==
    /\ pc = "compare_loop"
    /\ it < Len(Zip(comparisons, pos))
    /\ LET i == Zip(comparisons, pos)[it + 1][1][1]
           j == Zip(comparisons, pos)[it + 1][1][2]
           k == Zip(comparisons, pos)[it + 1][2][1]
           l == Zip(comparisons, pos)[it + 1][2][2]
       IN  IF <<k, l>> \in AxPositions
           THEN /\ ax' = [ax EXCEPT ![<<k, l>>] =
                              [title |-> <<Days[i + 1], Days[j + 1]>>,
                               plots |-> Append(@.plots, <<i, j>>)]]
                /\ it' = it + 1
                /\ UNCHANGED <<pc, err>>
           ELSE /\ err' = "IndexError"
                /\ pc' = "raised"
                /\ UNCHANGED <<ax, it>>
    /\ UNCHANGED <<lit, run, prev, rng, betaVars, gaussVars, trace, post, data_clean,
                   ngroups, comparisons, pos>>

\* line 608: the loop is over
CompareEnd ==
    /\ pc = "compare_loop"
    /\ it = Len(Zip(comparisons, pos))
    /\ pc' = "end"
    /\ UNCHANGED <<ctl, rng, it, betaVars, gaussVars, laterVars>>

InitNotebook ==
    /\ pc = "plot"
    /\ err = "none"
    /\ lit \in NotebookLiterals
    /\ rng \in 0..(RngMod - 1)
    /\ run = 1
    /\ prev = Unbound
    /\ it = 0
    /\ BetaUnbound
    /\ GaussUnbound
    /\ LaterUnbound

NextNotebook ==
    \/ PlotSetup
    \/ PlotStep
    \/ PlotEnd
    \/ CredibleData
    \/ SufficientStats
    \/ IntervalFunction
    \/ InverseCdf
    \/ MonteCarlo
    \/ PointEstimates
    \/ BetaModel
    \/ Sample
    \/ Advi
    \/ GaussData
    \/ GaussParams
    \/ BayesRule
    \/ GaussModel
    \/ LogJoint
    \/ ChemicalShifts
    \/ RobustModels
    \/ CleanData
    \/ Tips
    \/ CompareSetup
    \/ CompareStep
    \/ CompareEnd

SpecNotebook == InitNotebook /\ [][NextNotebook]_vars

\* positions at which model is the Beta-Bernoulli model and data the Bernoulli draws
BetaModelBound == {"sample", "advi", "gauss", "gauss_prior", "bayes", "gauss_model"}
\* positions at which trace, and at which post, is bound
TraceBound == {"advi", "gauss", "gauss_prior", "bayes", "gauss_model", "logp", "gauss_done",
               "robust", "clean", "tips", "compare", "compare_loop", "end"}
PostBound == TraceBound \ {"advi"}
\* positions from which data is the chemical shifts
ShiftsBound == {"robust", "clean", "tips", "compare", "compare_loop", "end"}
\* positions at which model is the Gaussian model and x the normal draws (line 558
\* binds x to the days)
GaussModelBound == {"logp", "gauss_done", "robust", "clean", "tips"}
\* positions from which logp is bound, and model is still the Gaussian model
LogpBound == {"gauss_done"} \cup ShiftsBound

\* m observes the draws, and has the prior, from which N1, apost and bpost were computed
FromExactBeta(m) ==
    /\ m.alpha = aprior /\ m.beta = bprior
    /\ Len(m.observed) = ntrials
    /\ Sum(m.observed) = N1
    /\ apost = m.alpha + Sum(m.observed)
    /\ bpost = m.beta + (Len(m.observed) - Sum(m.observed))
    /\ m.observed # lit.data

\* m has the observations and the parameters from which Sigma_post and mu_post
\* were computed
FromExactGauss(m) ==
    /\ m.observed = x
    /\ m.mu_mu = mu_prior /\ m.mu_sd = sigma_prior /\ m.obs_sd = sigma_x
    /\ N = Len(m.observed)
    /\ Sigma_post = PosteriorVariance(Square(m.mu_sd), Len(m.observed), Square(m.obs_sd))
    /\ mu_post = PosteriorMean(Sigma_post, Square(m.obs_sd), Len(m.observed),
                               Mean(m.observed), Square(m.mu_sd), m.mu_mu)

\* every read sees the binding its section intends
IntendedBindings ==
    /\ pc \in BetaModelBound => FromExactBeta(model) /\ model.observed = data
    /\ pc \in TraceBound => FromExactBeta(trace.model)
    /\ pc \in PostBound => FromExactBeta(post.model)
    /\ pc \in PostBound \ ShiftsBound => post.model.observed = data
    /\ pc \in ShiftsBound => data = lit.shifts
    /\ pc \in GaussModelBound => FromExactGauss(model)
    /\ pc \in LogpBound => logp = ModelLogp(model, mu_clamped)

\* the posteriors are assigned by the step that computes them, and by no other
PosteriorsKept ==
    /\ pc # "stats" => apost' = apost /\ bpost' = bpost
    /\ pc # "bayes" => mu_post' = mu_post /\ Sigma_post' = Sigma_post

ShiftValues == {<<0, 1>>, <<1, 1>>, <<3, 2>>, <<10, 1>>, NaN}
ShiftColumns == UNION {[1..n -> ShiftValues] : n \in 1..MaxShifts}

InitOutliers ==
    /\ pc = "gauss_done"
    /\ err = "none"
    /\ lit \in [shifts : ShiftColumns]
    /\ rng = 0
    /\ run = 1
    /\ prev = Unbound
    /\ it = 0
    /\ BetaUnbound
    /\ GaussUnbound
    /\ LaterUnbound

NextOutliers ==
    \/ ChemicalShifts
    \/ RobustModels
    \/ CleanData

SpecOutliers == InitOutliers /\ [][NextOutliers]_vars

\* no element is NaN
AllNumbers(s) == \A n \in 1..Len(s) : ~IsNaN(s[n])
\* the elements v of s with Q1 - 1.5*(Q3 - Q1) <= v <= Q3 + 1.5*(Q3 - Q1), in the order
\* and with the multiplicity they have in s; the fences as 2.5*Q1 - 1.5*Q3 and
\* 2.5*Q3 - 1.5*Q1
WithinFences(s) ==
    LET Q1 == Percentile(s, FromInt(25))
        Q3 == Percentile(s, FromInt(75))
        lower == RSub(RMul(<<5, 2>>, Q1), RMul(<<3, 2>>, Q3))
        upper == RSub(RMul(<<5, 2>>, Q3), RMul(<<3, 2>>, Q1))
        Inside(v) == RLe(lower, v) /\ RLe(v, upper)
    IN  SelectSeq(s, Inside)

DayColumns == UNION {[1..n -> {Days[c] : c \in 1..Len(Days)}] : n \in 1..MaxTips}

InitCompare ==
    /\ pc = "tips"
    /\ err = "none"
    /\ lit \in [day : DayColumns]
    /\ rng = 0
    /\ run = 1
    /\ prev = Unbound
    /\ it = 0
    /\ BetaUnbound
    /\ GaussUnbound
    /\ LaterUnbound

NextCompare ==
    \/ Tips
    \/ CompareSetup
    \/ CompareStep
    \/ CompareEnd

SpecCompare == InitCompare /\ [][NextCompare]_vars

\* (i, j) comes before (m, n) in lexicographic order
LexLess(p, q) == p[1] < q[1] \/ (p[1] = q[1] /\ p[2] < q[2])
\* the pairs (i, j) with 0 <= i < j < ng
Pairs(ng) == {p \in (0..(ng - 1)) \X (0..(ng - 1)) : p[1] < p[2]}
\* the positions of the axes on which the pair p was plotted
PlottedAt(p) == {q \in AxPositions : \E n \in 1..Len(ax[q].plots) : ax[q].plots[n] = p}

\* what the loop goes through: every pair once, in lexicographic order, each with a
\* position of its own inside the 3x2 grid
PairsAndPositions ==
    LET visits == Zip(comparisons, pos)
    IN  /\ Len(visits) = Len(comparisons)
        /\ {visits[n][1] : n \in 1..Len(visits)} = Pairs(ngroups)
        /\ Len(visits) = Cardinality(Pairs(ngroups))
        /\ \A n \in 1..Len(visits) : \A m \in 1..Len(visits) :
               n < m => /\ LexLess(visits[n][1], visits[m][1])
                        /\ visits[n][2] # visits[m][2]
        /\ \A n \in 1..Len(visits) :
               /\ 0 <= visits[n][2][1] /\ visits[n][2][1] < 3
               /\ 0 <= visits[n][2][2] /\ visits[n][2][2] < 2

\* what the loop has drawn when it is over: one plot for every pair, on an axis that
\* carries this plot only, titled with the two days
EveryPairPlottedOnce ==
    /\ it = Len(comparisons)
    /\ \A p \in Pairs(ngroups) :
           /\ Cardinality(PlottedAt(p)) = 1
           /\ \A q \in PlottedAt(p) :
                  ax[q] = [title |-> <<Days[p[1] + 1], Days[p[2] + 1]>>, plots |-> <<p>>]
    /\ \A q \in AxPositions : Len(ax[q].plots) <= 1
    /\ Cardinality({q \in AxPositions : ax[q] # EmptyAxis}) = Cardinality(Pairs(ngroups))

\* C12: for ngroups in 2..4 the loop over zip(comparisons, pos) visits every pair (i, j)
\* with 0 <= i < j < ngroups exactly once, in lexicographic order, and gives each pair a
\* subplot position (k, l) of its own with 0 <= k < 3 and 0 <= l < 2: the zip drops no
\* pair, and no position is used twice or lies outside the 3x2 grid.
C12_EveryPairOnce ==
    (pc \in {"compare_loop", "end", "raised"} /\ ngroups \in 2..4) =>
        /\ pc # "raised"
        /\ PairsAndPositions
        /\ pc = "end" => EveryPairPlottedOnce

C12_Witness ==
    /\ pc = "end"
    /\ ngroups = 4
    /\ it = 6
    /\ ax[<<0, 0>>].title = <<"Thur", "Fri">>
    /\ ax[<<2, 1>>].plots = <<<<2, 3>>>>

====
